---- MODULE Spec2Model ----
(***************************************************************************)
(* Model of regex-tool.py: the Highlighter (colorize_matches), the Group   *)
(* Inspector (show_captured_groups) and the interactive loop of main().    *)
(*                                                                         *)
(* Strings are sequences of one-character strings, so that slicing,        *)
(* strip() and join() are computed.  Offsets are 0-based as in Python: the *)
(* character at offset i of a string s is s[i+1].                          *)
(***************************************************************************)
EXTENDS Integers, Sequences, FiniteSets, TLC

\* ---------------------------------------------------------------- bounds
\* Longest text given by -t or read from the file.
MaxTextLen == 3
\* Most lines typed as interactive text before end-of-input.
MaxLines == 2

\* ------------------------------------------------------- Python values
\* Optional values: None, or a value v.
None == [some |-> FALSE, val |-> <<>>]
Some(v) == [some |-> TRUE, val |-> v]
\* Python truthiness of an optional string or list: None and empty are falsy.
Truthy(x) == x.some /\ x.val # <<>>

\* s[lo:hi] for 0 <= lo <= hi <= len(s).
Slice(s, lo, hi) == SubSeq(s, lo + 1, hi)

Whitespace == {" ", "\n", "\t"}

\* Fault: nothing is stripped.
StripNothing(s) == s

\* str.strip(): leading and trailing whitespace removed.
RECURSIVE LStrip(_)
LStrip(s) == IF s # <<>> /\ Head(s) \in Whitespace THEN LStrip(Tail(s)) ELSE s
RECURSIVE RStrip(_)
RStrip(s) ==
    IF s # <<>> /\ s[Len(s)] \in Whitespace
    THEN RStrip(SubSeq(s, 1, Len(s) - 1))
    ELSE s
Strip(s) == RStrip(LStrip(s))

\* '\n'.join(lines)
RECURSIVE JoinLines(_)
JoinLines(lines) ==
    IF lines = <<>> THEN <<>>
    ELSE IF Len(lines) = 1 THEN lines[1]
    ELSE lines[1] \o <<"\n">> \o JoinLines(Tail(lines))

\* ------------------------------------------------------------- Colors
RED == "ESC[91m"
GREEN == "ESC[92m"
YELLOW == "ESC[93m"
BLUE == "ESC[94m"
MAGENTA == "ESC[95m"
CYAN == "ESC[96m"
RESET == "ESC[0m"
\* color_map[name]
ColorMap(name) ==
    CASE name = "red" -> RED
      [] name = "green" -> GREEN
      [] name = "yellow" -> YELLOW
      [] name = "blue" -> BLUE
      [] name = "magenta" -> MAGENTA
      [] name = "cyan" -> CYAN
\* The values of --color: its default, and one given on the command line.
ColorArgs == {"red", "cyan"}

\* ------------------------------------------------- the regex engine (re)
\* Compiled patterns are trees:
\*   <<"lit", c>>  <<"cat", r1, r2>>  <<"alt", r1, r2>>  <<"grp", idx, r>>
\*   <<"star", r, greedy>>  <<"plus", r, greedy>>  <<"opt", r, greedy>>
Lit(c) == <<"lit", c>>
Cat(r1, r2) == <<"cat", r1, r2>>
Alt(r1, r2) == <<"alt", r1, r2>>
Grp(idx, r) == <<"grp", idx, r>>
Star(r, greedy) == <<"star", r, greedy>>
Plus(r, greedy) == <<"plus", r, greedy>>
Opt(r, greedy) == <<"opt", r, greedy>>

\* The pattern strings submitted in the model.
PatPlus == <<"a", "+">>
PatStar == <<"a", "*">>
PatLazy == <<"a", "*", "?">>
PatAltGroup == <<"(", "a", ")", "|", "b">>
PatEmptyGroup == <<"(", "a", "*", ")", "b">>
PatNamed == <<"(", "?", "P", "<", "x", ">", "a", ")", "(", "b", ")", "?">>
PatSpace == <<" ">>
PatUnbalanced == <<"(">>
PatNothing == <<"*">>
GoodPatterns ==
    {PatPlus, PatStar, PatLazy, PatAltGroup, PatEmptyGroup, PatNamed, PatSpace}
BadPatterns == {PatUnbalanced, PatNothing}
Patterns == GoodPatterns \cup BadPatterns

CompileOk(tree, ngroups, names) ==
    [ok |-> TRUE, tree |-> tree, groups |-> ngroups, groupindex |-> names,
     msg |-> ""]
CompileError(msg) ==
    [ok |-> FALSE, tree |-> <<>>, groups |-> 0, groupindex |-> <<>>, msg |-> msg]

\* re.compile(pattern): the compiled pattern, or the re.error the engine
\* raises with its message.  groupindex lists the <<name, index>> pairs in
\* the order the dict holds them.
Compile(p) ==
    CASE p = PatPlus -> CompileOk(Plus(Lit("a"), TRUE), 0, <<>>)
      [] p = PatStar -> CompileOk(Star(Lit("a"), TRUE), 0, <<>>)
      [] p = PatLazy -> CompileOk(Star(Lit("a"), FALSE), 0, <<>>)
      [] p = PatAltGroup -> CompileOk(Alt(Grp(1, Lit("a")), Lit("b")), 1, <<>>)
      [] p = PatEmptyGroup ->
            CompileOk(Cat(Grp(1, Star(Lit("a"), TRUE)), Lit("b")), 1, <<>>)
      [] p = PatNamed ->
            CompileOk(Cat(Grp(1, Lit("a")), Opt(Grp(2, Lit("b")), TRUE)), 2,
                      <<(<<"x", 1>>)>>)
      [] p = PatSpace -> CompileOk(Lit(" "), 0, <<>>)
      [] p = PatUnbalanced ->
            CompileError("missing ), unterminated subpattern at position 0")
      [] p = PatNothing -> CompileError("nothing to repeat at position 0")

\* A group that did not participate has span (-1, -1).
NoSpan == <<-1, -1>>
NoGroups(n) == [g \in 1..n |-> NoSpan]

\* The engine's backtracking matcher: every way tree r matches string at
\* offset i, as [e |-> end offset, caps |-> group spans], in the order the
\* engine tries them (greedy: longest first; lazy: shortest first;
\* alternation: left first).
RECURSIVE Try(_, _, _, _)
Try(r, string, i, caps) ==
    LET skip == <<[e |-> i, caps |-> caps]>>
        \* the ways r2 matches after each way of `first`, in order
        Then(first, r2) ==
            LET RECURSIVE Cont(_)
                Cont(k) ==
                    IF k > Len(first) THEN <<>>
                    ELSE Try(r2, string, first[k].e, first[k].caps) \o Cont(k + 1)
            IN  Cont(1)
        Advancing(first) == SelectSeq(first, LAMBDA o : o.e > i)
    IN  CASE r[1] = "lit" ->
                IF i < Len(string) /\ string[i + 1] = r[2]
                THEN <<[e |-> i + 1, caps |-> caps]>>
                ELSE <<>>
          [] r[1] = "cat" -> Then(Try(r[2], string, i, caps), r[3])
          [] r[1] = "alt" ->
                Try(r[2], string, i, caps) \o Try(r[3], string, i, caps)
          [] r[1] = "grp" ->
                LET inner == Try(r[3], string, i, caps)
                IN  [k \in 1..Len(inner) |->
                        [e |-> inner[k].e,
                         caps |-> [inner[k].caps EXCEPT ![r[2]] = <<i, inner[k].e>>]]]
          [] r[1] = "opt" ->
                IF r[3] THEN Try(r[2], string, i, caps) \o skip
                ELSE skip \o Try(r[2], string, i, caps)
          [] r[1] = "star" ->
                LET more == Then(Advancing(Try(r[2], string, i, caps)), r)
                IN  IF r[3] THEN more \o skip ELSE skip \o more
          [] r[1] = "plus" ->
                Then(Try(r[2], string, i, caps), Star(r[2], r[3]))

NoMatch == [found |-> FALSE, start |-> 0, end |-> 0, groups |-> <<>>]

\* Fault: an empty match at pos is accepted although the scanner must advance.
MatchAtAcceptingEmpty(compiled, string, pos, must_advance) ==
    LET ways == Try(compiled.tree, string, pos, NoGroups(compiled.groups))
    IN  IF ways = <<>> THEN NoMatch
        ELSE [found |-> TRUE, start |-> pos, end |-> ways[1].e,
              groups |-> ways[1].caps]

\* One match attempt at offset pos: the first way the pattern matches there;
\* with must_advance, an empty match at pos is rejected and the engine
\* backtracks to the next way.
MatchAt(compiled, string, pos, must_advance) ==
    LET ways == SelectSeq(Try(compiled.tree, string, pos, NoGroups(compiled.groups)),
                          LAMBDA o : ~(must_advance /\ o.e = pos))
    IN  IF ways = <<>> THEN NoMatch
        ELSE [found |-> TRUE, start |-> pos, end |-> ways[1].e,
              groups |-> ways[1].caps]

\* The scanner's search from offset pos: the leftmost offset at which the
\* pattern matches; must_advance applies to the first offset only.
RECURSIVE Search(_, _, _, _)
Search(compiled, string, pos, must_advance) ==
    LET m == MatchAt(compiled, string, pos, must_advance)
    IN  IF m.found THEN m
        ELSE IF pos < Len(string) THEN Search(compiled, string, pos + 1, FALSE)
        ELSE NoMatch

\* The match object the iterator yields for a found match.
MatchObject(m, string) ==
    [start |-> m.start, end |-> m.end, groups |-> m.groups, string |-> string]

\* Fault: the scanner never asks for an advance after an empty match.
ScanNeverMustAdvance(m) == FALSE

\* After yielding m the scanner resumes at m's end, and must advance when m
\* was empty.
ScanMustAdvance(m) == m.end = m.start

\* list(compiled.finditer(string)), the scanner started at (pos, must_advance).
RECURSIVE FindIterFrom(_, _, _, _)
FindIterFrom(compiled, string, pos, must_advance) ==
    LET m == Search(compiled, string, pos, must_advance)
    IN  IF ~m.found THEN <<>>
        ELSE <<MatchObject(m, string)>>
             \o FindIterFrom(compiled, string, m.end, ScanMustAdvance(m))

FindIter(compiled, string) == FindIterFrom(compiled, string, 0, FALSE)

\* match.span(), match.group(0), match.groups(), match.group(idx)
MatchSpan(match) == <<match.start, match.end>>
MatchGroup0(match) == Slice(match.string, match.start, match.end)
MatchGroup(match, idx) ==
    IF match.groups[idx] = NoSpan THEN None
    ELSE Some(Slice(match.string, match.groups[idx][1], match.groups[idx][2]))


\* ------------------------------------------------------------ printing
\* A printed line is a sequence of string fragments; stdout holds the lines
\* the latest step printed.
IntVal(n) == [int |-> TRUE, n |-> n, s |-> <<>>]
StrVal(s) == [int |-> FALSE, n |-> 0, s |-> s]
\* str(v) of an int-or-string value, and of an optional string.
StrOf(v) == IF v.int THEN <<ToString(v.n)>> ELSE v.s
StrOfOptional(x) == IF x.some THEN x.val ELSE <<"None">>

\* ', '.join(names)
RECURSIVE JoinNames(_)
JoinNames(names) ==
    IF names = <<>> THEN <<>>
    ELSE IF Len(names) = 1 THEN <<names[1]>>
    ELSE <<names[1], ", ">> \o JoinNames(Tail(names))

\* ----------------------------------------- colorize_matches (Highlighter)
\* The error return of colorize_matches: (None, "Regex error: ...", None).
ColorizeError(compiled) ==
    [result |-> None,
     match_count |-> StrVal(<<"Regex error: ", compiled.msg>>),
     match_objects |-> None]

\* The locals of colorize_matches at function entry, and the scanner of
\* compiled.finditer(text) before its first search.
FrameAtEntry ==
    [pos |-> 0, must_advance |-> FALSE, last_end |-> 0, output |-> <<>>,
     match_count |-> 0, all_matches |-> <<>>]

\* The pieces one loop iteration appends to output for match m.
MatchPieces(txt, last_end, m, color) ==
    Slice(txt, last_end, m.start) \o <<color>> \o Slice(txt, m.start, m.end)
        \o <<RESET>>

\* last_end after the iteration for match m.
NextLastEnd(m) == m.end

\* Fault: an empty match is recorded and coloured but not counted.
FrameAfterMatchSkippingEmpty(f, txt, m, color) ==
    [pos |-> m.end,
     must_advance |-> ScanMustAdvance(m),
     last_end |-> NextLastEnd(m),
     output |-> f.output \o MatchPieces(txt, f.last_end, m, color),
     match_count |-> IF m.end > m.start THEN f.match_count + 1
                     ELSE f.match_count,
     all_matches |-> Append(f.all_matches, MatchObject(m, txt))]

\* One iteration of `for match in compiled.finditer(text)`.
FrameAfterMatch(f, txt, m, color) ==
    [pos |-> m.end,
     must_advance |-> ScanMustAdvance(m),
     last_end |-> NextLastEnd(m),
     output |-> f.output \o MatchPieces(txt, f.last_end, m, color),
     match_count |-> f.match_count + 1,
     all_matches |-> Append(f.all_matches, MatchObject(m, txt))]

\* Fault: the text after the last match is not appended.
TailPieceDropped(txt, last_end) == <<>>

\* The remaining text appended after the loop.
TailPiece(txt, last_end) == Slice(txt, last_end, Len(txt))

\* The success return: (''.join(output), match_count, all_matches).
ColorizeReturn(f, txt) ==
    [result |-> Some(f.output \o TailPiece(txt, f.last_end)),
     match_count |-> IntVal(f.match_count),
     match_objects |-> Some(f.all_matches)]

\* ------------------------------------ show_captured_groups (Inspector)
\* group_names[idx]: the names groupindex maps to idx; empty when the
\* pattern does not compile.
GroupNames(compiled, idx) ==
    IF ~compiled.ok THEN <<>>
    ELSE LET hits == SelectSeq(compiled.groupindex, LAMBDA e : e[2] = idx)
         IN  [k \in 1..Len(hits) |-> hits[k][1]]

NameStr(names) ==
    IF names # <<>> THEN <<" (">> \o JoinNames(names) \o <<")">> ELSE <<>>

\* What the report shows for a group value: `value if value else 'None'`.
ShownValue(value) == IF Truthy(value) THEN value.val ELSE <<"None">>

GroupLine(compiled, match, idx) ==
    <<"    Group ", ToString(idx)>> \o NameStr(GroupNames(compiled, idx))
        \o <<": ", GREEN>> \o ShownValue(MatchGroup(match, idx)) \o <<RESET>>

\* Fault: a match of a pattern without groups gets no groups line at all.
MatchSectionOmittingNoGroups(compiled, match, i) ==
    << <<YELLOW, "Match ", ToString(i), " at position [", ToString(match.start),
         "-", ToString(match.end), "]:", RESET>>,
       <<"  Full match: ", GREEN>> \o MatchGroup0(match) \o <<RESET>> >>
    \o (IF Len(match.groups) > 0
        THEN << <<"  Captured groups:">> >>
             \o [idx \in 1..Len(match.groups) |-> GroupLine(compiled, match, idx)]
        ELSE <<>>)
    \o << <<>> >>

\* Fault: the groups of a match are listed from the last to the first.
MatchSectionGroupsDescending(compiled, match, i) ==
    << <<YELLOW, "Match ", ToString(i), " at position [", ToString(match.start),
         "-", ToString(match.end), "]:", RESET>>,
       <<"  Full match: ", GREEN>> \o MatchGroup0(match) \o <<RESET>> >>
    \o (IF Len(match.groups) > 0
        THEN << <<"  Captured groups:">> >>
             \o [idx \in 1..Len(match.groups) |->
                    GroupLine(compiled, match, Len(match.groups) + 1 - idx)]
        ELSE << <<"  ", BLUE, "No captured groups in pattern", RESET>> >>)
    \o << <<>> >>

\* The lines printed for the i-th match.
MatchSection(compiled, match, i) ==
    << <<YELLOW, "Match ", ToString(i), " at position [", ToString(match.start),
         "-", ToString(match.end), "]:", RESET>>,
       <<"  Full match: ", GREEN>> \o MatchGroup0(match) \o <<RESET>> >>
    \o (IF Len(match.groups) > 0
        THEN << <<"  Captured groups:">> >>
             \o [idx \in 1..Len(match.groups) |-> GroupLine(compiled, match, idx)]
        ELSE << <<"  ", BLUE, "No captured groups in pattern", RESET>> >>)
    \o << <<>> >>

RECURSIVE MatchSections(_, _, _)
MatchSections(compiled, matches, i) ==
    IF i > Len(matches) THEN <<>>
    ELSE MatchSection(compiled, matches[i], i)
         \o MatchSections(compiled, matches, i + 1)

\* '=' * 60
Rule60 == "============================================================"

NoMatchesLine == <<YELLOW, "No matches found for pattern", RESET>>

\* Fault: the report is laid out even when there is no match.
ShowCapturedGroupsAlways(matches, pat) ==
    << <<"\n", CYAN, "===== Captured Groups for Pattern: ">> \o pat
           \o <<" =====">>,
       <<"Total matches found: ", ToString(Len(matches)), RESET, "\n">> >>
    \o MatchSections(Compile(pat), matches, 1)
    \o << <<CYAN, Rule60, RESET>> >>

\* Everything show_captured_groups(matches, pattern) prints.
ShowCapturedGroups(matches, pat) ==
    IF matches = <<>> THEN <<NoMatchesLine>>
    ELSE << <<"\n", CYAN, "===== Captured Groups for Pattern: ">> \o pat
                \o <<" =====">>,
            <<"Total matches found: ", ToString(Len(matches)), RESET, "\n">> >>
         \o MatchSections(Compile(pat), matches, 1)
         \o << <<CYAN, Rule60, RESET>> >>

\* ---------------------------------------------------------------- main
\* Every sequence over S of length at most n.
SeqsUpTo(S, n) == UNION {[1..k -> S] : k \in 0..n}

\* Texts given by -t or held by the file.
TextAlphabet == {"a", "b"}
Texts == SeqsUpTo(TextAlphabet, MaxTextLen)
\* Lines typed as interactive text.
TypedLines == SeqsUpTo(TextAlphabet, 1)

GroupsCommand == <<":", "g", "r", "o", "u", "p", "s">>

\* Values of the -p flag (absent, or a string taken as it is).
PatternArgs ==
    {None} \cup {Some(p) : p \in Patterns \cup {<<>>, GroupsCommand}}

\* Lines typed at the pattern prompt, before strip().
PromptLines ==
    (Patterns \ {PatSpace})
        \cup {<<>>, <<" ">>, GroupsCommand, <<" ">> \o GroupsCommand \o <<" ">>,
              <<" ">> \o PatPlus, PatUnbalanced \o <<" ">>}

\* '-' * 50
Rule50 == "--------------------------------------------------"

PromptLine == <<"\nRegex pattern> ">>
ExitingLine == <<"\nExiting...">>
NoPreviousLine == <<YELLOW, "No previous valid pattern available", RESET>>
BannerLines ==
    << <<"\n", CYAN, "Enter regex patterns to test (Ctrl+C to exit)">>,
       <<"Type ':groups' to see captured groups from the last pattern", RESET>> >>

VARIABLES
    pc,                  \* where main() is
    source,              \* how the text source turned out at startup
    exit_status,         \* the status given to sys.exit, None while running
    text,                \* main's text
    color_code,          \* main's color_code
    pattern,             \* main's pattern (None, or a string)
    last_valid_pattern,  \* main's last_valid_pattern
    last_match_objects,  \* main's last_match_objects
    frame,               \* the locals of the running colorize_matches call
    ret,                 \* main's result, match_count, match_objects
    stdout,              \* the lines printed by the latest step
    last_action,         \* history: the latest step taken
    history              \* history: the line last typed at the prompt, the
                         \* pattern last submitted for evaluation, the
                         \* pattern last evaluated with success, whether
                         \* that success replaced another pattern's, and
                         \* what ':groups' printed since that success,
                         \* the latest time and the time before

vars ==
    <<pc, source, exit_status, text, color_code, pattern, last_valid_pattern,
      last_match_objects, frame, ret, stdout, last_action, history>>

session == <<text, last_valid_pattern, last_match_objects>>

Unassigned == [result |-> None, match_count |-> IntVal(0), match_objects |-> None]

Init ==
    /\ pc = "Start"
    /\ source = "none"
    /\ exit_status = None
    /\ text = <<>>
    /\ color_code = RED
    /\ pattern = None
    /\ last_valid_pattern = None
    /\ last_match_objects = <<>>
    /\ frame = FrameAtEntry
    /\ ret = Unassigned
    /\ stdout = <<>>
    /\ last_action = "Init"
    /\ history = [typed |-> None, submitted |-> None, succeeded |-> None,
                  replaced |-> FALSE, inspected |-> None,
                  reinspected |-> None]

\* sys.exit(status) after printing lines: nothing else changes.
Exit(src, status, lines) ==
    /\ pc' = "Exited"
    /\ source' = src
    /\ exit_status' = Some(status)
    /\ stdout' = lines
    /\ UNCHANGED <<text, color_code, pattern, last_valid_pattern,
                   last_match_objects, frame, ret, history>>

\* The text is acquired: main goes on to the pattern handling and prints the
\* loop's banner.
EnterLoop(src, txt, preamble, pattern_arg, color) ==
    /\ pc' = "AwaitingPattern"
    /\ source' = src
    /\ text' = txt
    /\ color_code' = ColorMap(color)
    /\ pattern' = pattern_arg
    /\ last_valid_pattern' = None
    /\ last_match_objects' = <<>>
    /\ stdout' = preamble \o BannerLines
    /\ UNCHANGED <<exit_status, frame, ret, history>>

\* main() with a non-empty -t.
StartText ==
    /\ pc = "Start"
    /\ \E args_text \in Texts \ {<<>>}, p \in PatternArgs, c \in ColorArgs :
          EnterLoop("text", args_text, <<>>, p, c)
    /\ last_action' = "StartText"

FileNotFoundLine(path) == <<"Error: File not found - ">> \o path
ReadErrorLine(err) == <<"Error reading file: ", err>>

\* Fault: the missing file is reported but main goes on with the empty text.
StartFileGoingOn ==
    /\ pc = "Start"
    /\ \E path \in {<<"f">>}, p \in PatternArgs, c \in ColorArgs :
          \/ EnterLoop("file_missing", <<>>, <<FileNotFoundLine(path)>>, p, c)
          \/ Exit("file_unreadable", 1, <<ReadErrorLine("Permission denied")>>)
          \/ \E contents \in Texts : EnterLoop("file", contents, <<>>, p, c)
    /\ last_action' = "StartFile"

\* main() with no (or an empty) -t and a -f: the file is missing, cannot be
\* read, or holds `contents`.
StartFile ==
    /\ pc = "Start"
    /\ \E path \in {<<"f">>}, p \in PatternArgs, c \in ColorArgs :
          \/ Exit("file_missing", 1, <<FileNotFoundLine(path)>>)
          \/ Exit("file_unreadable", 1, <<ReadErrorLine("Permission denied")>>)
          \/ \E contents \in Texts : EnterLoop("file", contents, <<>>, p, c)
    /\ last_action' = "StartFile"

InteractiveLines ==
    << <<CYAN, "Regex Learning Tool (Interactive Mode)", RESET>>,
       <<"Enter text to test against", " (Press Ctrl+D or Ctrl+Z when finished):">> >>

NoTextLine == <<"No text provided. Exiting.">>

\* main() with neither: the text is the typed lines joined.
StartInteractive ==
    /\ pc = "Start"
    /\ \E lines \in SeqsUpTo(TypedLines, MaxLines), p \in PatternArgs,
          c \in ColorArgs :
          LET typed == JoinLines(lines)
          IN  IF typed = <<>>
              THEN Exit("stdin_empty", 0,
                        InteractiveLines \o <<NoTextLine>>)
              ELSE EnterLoop("stdin", typed, InteractiveLines, p, c)
    /\ last_action' = "StartInteractive"

\* ------------------------------------------------- the interactive loop
\* Where the loop body goes with a non-empty pattern: the special command,
\* or the call of colorize_matches.
Dispatch(p, h) ==
    /\ pc' = IF p = GroupsCommand THEN "ReportingGroups" ELSE "Evaluating"
    /\ history' = IF p = GroupsCommand THEN h
                  ELSE [h EXCEPT !.submitted = Some(p)]

\* `if not pattern` is false: the pending pattern (from -p) is used without
\* prompting.
UsePending ==
    /\ pc = "AwaitingPattern"
    /\ Truthy(pattern)
    /\ Dispatch(pattern.val, history)
    /\ stdout' = <<>>
    /\ last_action' = "UsePending"
    /\ UNCHANGED <<source, exit_status, text, color_code, pattern,
                   last_valid_pattern, last_match_objects, frame, ret>>

\* pattern = input("\nRegex pattern> ").strip(); an empty pattern continues
\* the loop.
ReadLine ==
    /\ pc = "AwaitingPattern"
    /\ ~Truthy(pattern)
    /\ \E line \in PromptLines :
          LET h == [history EXCEPT !.typed = Some(line)]
          IN  /\ pattern' = Some(Strip(line))
              /\ IF Strip(line) = <<>>
                 THEN pc' = pc /\ history' = h
                 ELSE Dispatch(Strip(line), h)
    /\ stdout' = <<PromptLine>>
    /\ last_action' = "ReadLine"
    /\ UNCHANGED <<source, exit_status, text, color_code, last_valid_pattern,
                   last_match_objects, frame, ret>>

\* What the KeyboardInterrupt and EOFError handlers do: print and break.
Break ==
    /\ pc' = "Terminated"
    /\ stdout' = <<PromptLine, ExitingLine>>
    /\ UNCHANGED <<source, exit_status, text, color_code, pattern,
                   last_valid_pattern, last_match_objects, frame, ret, history>>

\* Ctrl+C while input() waits at the prompt.
Interrupt ==
    /\ pc = "AwaitingPattern"
    /\ ~Truthy(pattern)
    /\ Break
    /\ last_action' = "Interrupt"

\* End of input while input() waits at the prompt.
EndOfInput ==
    /\ pc = "AwaitingPattern"
    /\ ~Truthy(pattern)
    /\ Break
    /\ last_action' = "EndOfInput"

\* Fault: the retained matches are tested instead of the retained pattern.
GroupsOutputTestingMatches(valid_pattern, match_objects) ==
    IF match_objects # <<>>
    THEN ShowCapturedGroups(match_objects, valid_pattern.val)
    ELSE <<NoPreviousLine>>

\* What ':groups' prints.
GroupsOutput(valid_pattern, match_objects) ==
    IF Truthy(valid_pattern)
    THEN ShowCapturedGroups(match_objects, valid_pattern.val)
    ELSE <<NoPreviousLine>>

\* Fault: ':groups' uses up the retained matches.
ReportGroupsConsuming ==
    /\ pc = "ReportingGroups"
    /\ stdout' = GroupsOutput(last_valid_pattern, last_match_objects)
    /\ pattern' = None
    /\ last_match_objects' = <<>>
    /\ pc' = "AwaitingPattern"
    /\ history' = [history EXCEPT !.inspected = Some(stdout'),
                                  !.reinspected = history.inspected]
    /\ last_action' = "ReportGroups"
    /\ UNCHANGED <<source, exit_status, text, color_code, last_valid_pattern,
                   frame, ret>>

\* The ':groups' branch of the loop body.
ReportGroups ==
    /\ pc = "ReportingGroups"
    /\ stdout' = GroupsOutput(last_valid_pattern, last_match_objects)
    /\ pattern' = None
    /\ pc' = "AwaitingPattern"
    /\ history' = [history EXCEPT !.inspected = Some(stdout'),
                                  !.reinspected = history.inspected]
    /\ last_action' = "ReportGroups"
    /\ UNCHANGED <<source, exit_status, text, color_code, last_valid_pattern,
                   last_match_objects, frame, ret>>

\* Fault: the compile error is not caught and ends the program.
CompilePatternRaising ==
    /\ pc = "Evaluating"
    /\ LET compiled == Compile(pattern.val)
       IN  IF compiled.ok
           THEN /\ pc' = "Scanning"
                /\ frame' = FrameAtEntry
           ELSE /\ pc' = "Terminated"
                /\ frame' = frame
    /\ stdout' = <<>>
    /\ last_action' = "CompilePattern"
    /\ UNCHANGED <<source, exit_status, text, color_code, pattern,
                   last_valid_pattern, last_match_objects, ret, history>>

\* colorize_matches is called and compiles the pattern: on re.error it
\* returns at once, else it sets up its locals and the scan.
CompilePattern ==
    /\ pc = "Evaluating"
    /\ LET compiled == Compile(pattern.val)
       IN  IF compiled.ok
           THEN /\ pc' = "Scanning"
                /\ frame' = FrameAtEntry
                /\ ret' = ret
           ELSE /\ pc' = "ReportingError"
                /\ frame' = frame
                /\ ret' = ColorizeError(compiled)
    /\ stdout' = <<>>
    /\ last_action' = "CompilePattern"
    /\ UNCHANGED <<source, exit_status, text, color_code, pattern,
                   last_valid_pattern, last_match_objects, history>>

\* The scanner's next match from the frame's scan position.
NextMatch(f, pat, txt) == Search(Compile(pat), txt, f.pos, f.must_advance)

\* One iteration of the for loop of colorize_matches.
ScanStep ==
    /\ pc = "Scanning"
    /\ LET m == NextMatch(frame, pattern.val, text)
       IN  /\ m.found
           /\ frame' = FrameAfterMatch(frame, text, m, color_code)
    /\ stdout' = <<>>
    /\ last_action' = "ScanStep"
    /\ UNCHANGED <<pc, source, exit_status, text, color_code, pattern,
                   last_valid_pattern, last_match_objects, ret, history>>

\* Fault: colorize_matches stores its matches in main's retained list.
ScanEndCommitting ==
    /\ pc = "Scanning"
    /\ ~NextMatch(frame, pattern.val, text).found
    /\ ret' = ColorizeReturn(frame, text)
    /\ last_match_objects' = frame.all_matches
    /\ pc' = "Reporting"
    /\ stdout' = <<>>
    /\ last_action' = "ScanEnd"
    /\ UNCHANGED <<source, exit_status, text, color_code, pattern,
                   last_valid_pattern, frame, history>>

\* The iterator is exhausted: colorize_matches appends the tail and returns.
ScanEnd ==
    /\ pc = "Scanning"
    /\ ~NextMatch(frame, pattern.val, text).found
    /\ ret' = ColorizeReturn(frame, text)
    /\ pc' = "Reporting"
    /\ stdout' = <<>>
    /\ last_action' = "ScanEnd"
    /\ UNCHANGED <<source, exit_status, text, color_code, pattern,
                   last_valid_pattern, last_match_objects, frame, history>>

\* What the `result is None` branch prints.
ErrorOutput(r) == <<StrOfOptional(r.result)>>

\* What the success branch prints.
SuccessOutput(r, pat) ==
    << <<"\n", Rule50>>,
       <<"Matches found: ", YELLOW>> \o StrOf(r.match_count) \o <<RESET>>,
       <<"Pattern: ", CYAN>> \o pat \o <<RESET>>,
       <<Rule50>>,
       r.result.val,
       <<Rule50>> >>

\* Fault: the new matches are appended to the retained ones.
SavedMatchesAppended(old_matches, match_objects) ==
    old_matches \o match_objects.val

\* What the success branch saves for group inspection.
SavedPattern(old_pattern, pat) == Some(pat)
SavedMatches(old_matches, match_objects) == match_objects.val

\* Fault: the error branch also forgets what an earlier success saved.
ReportErrorForgetting ==
    /\ pc = "ReportingError"
    /\ stdout' = ErrorOutput(ret)
    /\ pattern' = None
    /\ last_valid_pattern' = None
    /\ last_match_objects' = <<>>
    /\ pc' = "AwaitingPattern"
    /\ last_action' = "ReportError"
    /\ UNCHANGED <<source, exit_status, text, color_code, frame, ret, history>>

\* Fault: the error branch leaves the loop.
ReportErrorBreaking ==
    /\ pc = "ReportingError"
    /\ stdout' = ErrorOutput(ret)
    /\ pattern' = None
    /\ pc' = "Terminated"
    /\ last_action' = "ReportError"
    /\ UNCHANGED <<source, exit_status, text, color_code, last_valid_pattern,
                   last_match_objects, frame, ret, history>>

\* The `result is None` branch, then `pattern = None`.
ReportError ==
    /\ pc = "ReportingError"
    /\ stdout' = ErrorOutput(ret)
    /\ pattern' = None
    /\ pc' = "AwaitingPattern"
    /\ last_action' = "ReportError"
    /\ UNCHANGED <<source, exit_status, text, color_code, last_valid_pattern,
                   last_match_objects, frame, ret, history>>

\* Fault: the success branch leaves the evaluated pattern pending.
ReportMatchesKeepingPattern ==
    /\ pc = "Reporting"
    /\ stdout' = SuccessOutput(ret, pattern.val)
    /\ last_valid_pattern' = SavedPattern(last_valid_pattern, pattern.val)
    /\ last_match_objects' = SavedMatches(last_match_objects, ret.match_objects)
    /\ pc' = "AwaitingPattern"
    /\ history' = [history EXCEPT
                        !.succeeded = history.submitted,
                        !.replaced = history.succeeded.some
                                     /\ history.succeeded # history.submitted,
                        !.inspected = None,
                        !.reinspected = None]
    /\ last_action' = "ReportMatches"
    /\ UNCHANGED <<source, exit_status, text, color_code, pattern, frame, ret>>

\* The success branch, then `pattern = None`.
ReportMatches ==
    /\ pc = "Reporting"
    /\ stdout' = SuccessOutput(ret, pattern.val)
    /\ last_valid_pattern' = SavedPattern(last_valid_pattern, pattern.val)
    /\ last_match_objects' = SavedMatches(last_match_objects, ret.match_objects)
    /\ pattern' = None
    /\ pc' = "AwaitingPattern"
    /\ history' = [history EXCEPT
                        !.succeeded = history.submitted,
                        !.replaced = history.succeeded.some
                                     /\ history.succeeded # history.submitted,
                        !.inspected = None,
                        !.reinspected = None]
    /\ last_action' = "ReportMatches"
    /\ UNCHANGED <<source, exit_status, text, color_code, frame, ret>>

Next ==
    \/ StartText
    \/ StartFile
    \/ StartInteractive
    \/ UsePending
    \/ ReadLine
    \/ Interrupt
    \/ EndOfInput
    \/ ReportGroups
    \/ CompilePattern
    \/ ScanStep
    \/ ScanEnd
    \/ ReportError
    \/ ReportMatches

Spec == Init /\ [][Next]_vars

\* ============================================================ properties

\* The match list a full scan of the text with pattern p gives.
ScanOf(p) == FindIter(Compile(p), text)

\* Some printed line holds fragment frag.
Printed(frag) ==
    \E k \in 1..Len(stdout) : \E j \in 1..Len(stdout[k]) : stdout[k][j] = frag

\* C1 (error isolation): the steps that handle a pattern which fails to
\* compile (the failing compile, then the error report) leave
\* last_valid_pattern and last_match_objects as they were; and whatever was
\* submitted in between, a ':groups' prints the report for the match set of
\* the pattern that last succeeded.
C1_ErrorIsolation ==
    /\ [][(pc = "ReportingError"
            \/ (pc = "Evaluating" /\ ~Compile(pattern.val).ok))
          => UNCHANGED <<last_valid_pattern, last_match_objects>>]_vars
    /\ [](last_action = "ReportGroups" /\ history.succeeded.some
          => stdout = ShowCapturedGroups(ScanOf(history.succeeded.val),
                                         history.succeeded.val))

\* ':groups' has just been answered, the latest pattern submitted was one
\* that fails to compile, and an earlier pattern succeeded with matches.
C1_Witness ==
    /\ last_action = "ReportGroups"
    /\ history.succeeded.some
    /\ history.submitted.some
    /\ ~Compile(history.submitted.val).ok
    /\ last_match_objects # <<>>

\* C2 (session consistency): either no pattern is retained and no match is,
\* or the retained matches are exactly the scan of the text with the retained
\* pattern; and the retained pattern is the one that last succeeded, so its
\* matches replaced those of any earlier one.
C2_SessionConsistent ==
    /\ \/ last_valid_pattern = None /\ last_match_objects = <<>>
       \/ /\ last_valid_pattern.some
          /\ Compile(last_valid_pattern.val).ok
          /\ last_match_objects = ScanOf(last_valid_pattern.val)
    /\ last_valid_pattern = history.succeeded

\* A success has just replaced the matches of a different, earlier pattern.
C2_Witness ==
    /\ last_action = "ReportMatches"
    /\ history.replaced
    /\ last_match_objects # <<>>

\* C3 (diagnostic shown): after the error report of a failing pattern, the
\* printed text holds the engine's message for that pattern.
C3_DiagnosticShown ==
    last_action = "ReportError"
        => Printed(Compile(history.submitted.val).msg)

\* The spans of a match list lie in the text and do not overlap.
InOrder(ms) ==
    /\ \A i \in 1..Len(ms) :
          0 <= ms[i].start /\ ms[i].start <= ms[i].end /\ ms[i].end <= Len(text)
    /\ \A i \in 1..(Len(ms) - 1) : ms[i].end <= ms[i + 1].start

\* Where the markers of the k-th match stand in the rendered text (1-based):
\* before its start marker come the text up to the match and the two markers
\* of every earlier match.
StartMarkerAt(ms, k) == ms[k].start + 2 * (k - 1) + 1
EndMarkerAt(ms, k) == ms[k].end + 2 * k
MarkerPositions(ms) ==
    {StartMarkerAt(ms, k) : k \in 1..Len(ms)}
        \cup {EndMarkerAt(ms, k) : k \in 1..Len(ms)}

\* s without the elements at the positions in P.
RECURSIVE RemoveAt(_, _, _)
RemoveAt(s, P, i) ==
    IF i > Len(s) THEN <<>>
    ELSE (IF i \in P THEN <<>> ELSE <<s[i]>>) \o RemoveAt(s, P, i + 1)

\* C4 (round trip): the rendered text the Highlighter returns holds the
\* colour code at each match start and the reset code at each match end, and
\* with exactly these markers removed it is the text, character for
\* character.
C4_RoundTrip ==
    pc = "Reporting" =>
        LET rendered == ret.result.val
            ms == ScanOf(pattern.val)
        IN  /\ Len(rendered) = Len(text) + 2 * Len(ms)
            /\ \A k \in 1..Len(ms) :
                  /\ rendered[StartMarkerAt(ms, k)] = color_code
                  /\ rendered[EndMarkerAt(ms, k)] = RESET
            /\ RemoveAt(rendered, MarkerPositions(ms), 1) = text

\* The Highlighter has returned at least two matches and text is left after
\* the last one.
C4_Witness ==
    /\ pc = "Reporting"
    /\ Len(ret.match_objects.val) >= 2
    /\ ret.match_objects.val[Len(ret.match_objects.val)].end < Len(text)

\* The matches the Highlighter has collected so far, or has returned.
Collected ==
    IF pc = "Scanning" THEN frame.all_matches
    ELSE IF pc = "Reporting" THEN ret.match_objects.val
    ELSE <<>>

\* C5 as stated (non-overlap and order): the records lie in the text, do not
\* overlap, and their start offsets are strictly increasing.
C5_StrictStarts ==
    /\ InOrder(Collected)
    /\ \A i \in 1..(Len(Collected) - 1) :
          Collected[i].start < Collected[i + 1].start

\* C5 as amended: the records lie in the text and do not overlap; their
\* start offsets never decrease, and two consecutive records share a start
\* only when the first is zero-width and the second is not, so that no span
\* occurs twice.
C5_OrderedSpans ==
    /\ InOrder(Collected)
    /\ \A i \in 1..(Len(Collected) - 1) :
          \/ Collected[i].start < Collected[i + 1].start
          \/ /\ Collected[i].start = Collected[i + 1].start
             /\ Collected[i].end = Collected[i].start
             /\ Collected[i + 1].end > Collected[i + 1].start

\* The Highlighter has returned two consecutive records with the same start.
C5_Witness ==
    /\ pc = "Reporting"
    /\ \E i \in 1..(Len(Collected) - 1) :
          Collected[i].start = Collected[i + 1].start

\* What is left for the scanner: twice the text after the scan position, and
\* one more while an empty match at the position is still allowed.
ScanMeasure(f) ==
    2 * (Len(text) - f.pos) + (IF f.must_advance THEN 0 ELSE 1)

\* The compiled pattern matches the empty string.
MatchesEmpty(p) ==
    Compile(p).ok /\ Search(Compile(p), <<>>, 0, FALSE).found

\* C6 (scan termination): every iteration of the scan strictly decreases a
\* measure that is never negative, so the scan ends after at most
\* 2 * len(text) + 1 matches, zero-width ones included; and for the empty
\* text and a pattern that matches the empty string the result is the one
\* record [0,0).
C6_ScanTerminates ==
    /\ [](pc = "Scanning" =>
            /\ ScanMeasure(frame) >= 0
            /\ Len(frame.all_matches) + ScanMeasure(frame)
                    <= 2 * Len(text) + 1)
    /\ [][pc = "Scanning" /\ pc' = "Scanning"
            => ScanMeasure(frame') < ScanMeasure(frame)]_vars
    /\ [](pc = "Reporting" /\ text = <<>> /\ MatchesEmpty(pattern.val) =>
            /\ Len(ret.match_objects.val) = 1
            /\ MatchSpan(ret.match_objects.val[1]) = <<0, 0>>)

\* The scan of the empty text with a pattern matching the empty string has
\* ended.
C6_Witness ==
    /\ pc = "Reporting"
    /\ text = <<>>
    /\ MatchesEmpty(pattern.val)
    /\ Len(ret.match_objects.val) = 1

\* C7 (':groups' availability): ':groups' prints "No previous valid pattern"
\* exactly when no pattern has succeeded so far in the session; otherwise it
\* prints the Group Inspector's report on the retained matches and pattern.
C7_GroupsAvailability ==
    last_action = "ReportGroups" =>
        /\ (stdout = <<NoPreviousLine>>) <=> ~history.succeeded.some
        /\ history.succeeded.some =>
              /\ last_valid_pattern.some
              /\ stdout = ShowCapturedGroups(last_match_objects,
                                               last_valid_pattern.val)

\* ':groups' has been answered in a session where a pattern was submitted and
\* none succeeded.
C7_Witness ==
    /\ last_action = "ReportGroups"
    /\ history.submitted.some
    /\ ~history.succeeded.some

\* Where the report prints the line of group idx of the i-th match: after the
\* two header lines, each match takes ngroups + 4 lines, the group lines
\* from its fourth.
GroupLineAt(ngroups, i, idx) == 2 + (i - 1) * (ngroups + 4) + 3 + idx

\* C8 (absent and empty groups differ): in the printed report, the line of a
\* group that captured the empty string differs from the line the Group
\* Inspector prints for that group when it did not participate.
C8_AbsentDistinctFromEmpty ==
    last_action = "ReportGroups" /\ last_match_objects # <<>> =>
        \A i \in 1..Len(last_match_objects) :
            LET m == last_match_objects[i]
                absent(idx) == [m EXCEPT !.groups[idx] = NoSpan]
            IN  \A idx \in 1..Len(m.groups) :
                    MatchGroup(m, idx) = Some(<<>>) =>
                        stdout[GroupLineAt(Len(m.groups), i, idx)]
                            # GroupLine(Compile(last_valid_pattern.val),
                                        absent(idx), idx)

\* How startup ended for each text source.
FileFailures == {"file_missing", "file_unreadable"}
SourceFailures == FileFailures \cup {"stdin_empty"}
SourcesAcquired == {"text", "file", "stdin"}

\* The text the pattern loop runs on was acquired from a source.
LoopHasText ==
    pc \notin {"Start", "Exited"} => source \in SourcesAcquired

\* C9 as stated (text-source failures): every failure ends the program
\* before the loop with a message and a non-zero status, and the loop runs
\* only on an acquired text.
C9_NonZeroExit ==
    /\ source \in SourceFailures =>
          /\ pc = "Exited"
          /\ stdout # <<>>
          /\ exit_status.some /\ exit_status.val # 0
    /\ LoopHasText

\* C9 as amended: every failure ends the program before the loop with a
\* message; the status is 1 for a missing or unreadable file and 0 for empty
\* interactive input; the loop runs only on an acquired text.
C9_AbortsBeforeLoop ==
    /\ source \in SourceFailures =>
          /\ pc = "Exited"
          /\ stdout # <<>>
          /\ exit_status = Some(IF source \in FileFailures THEN 1 ELSE 0)
    /\ pc = "Exited" => source \in SourceFailures
    /\ LoopHasText

\* The program has exited on empty interactive input.
C9_Witness ==
    /\ pc = "Exited"
    /\ source = "stdin_empty"
    /\ NoTextLine \in {stdout[k] : k \in 1..Len(stdout)}

AllWhitespace(s) == \A i \in 1..Len(s) : s[i] \in Whitespace

\* C11 (empty input): a line typed at the prompt that is empty once its
\* surrounding whitespace is trimmed only brings the prompt back: nothing
\* but the prompt is printed, neither colorize_matches nor
\* show_captured_groups runs, and the text, the retained pattern and the
\* retained matches stay as they were.
C11_EmptyInputReprompts ==
    [][last_action' = "ReadLine" /\ history'.typed.some
            /\ AllWhitespace(history'.typed.val) =>
          /\ pc' = "AwaitingPattern"
          /\ ~Truthy(pattern')
          /\ stdout' = <<PromptLine>>
          /\ history'.submitted = history.submitted
          /\ UNCHANGED <<session, frame, ret>>]_vars

\* A line of one space has been typed in a session that retains matches,
\* and the loop is back at the prompt.
C11_Witness ==
    /\ last_action = "ReadLine"
    /\ history.typed = Some(<<" ">>)
    /\ pc = "AwaitingPattern"
    /\ last_match_objects # <<>>


\* C12 (pattern errors stay in the loop): an evaluation ends in the success
\* report or in the error report, and ':groups' in its report; each of the
\* three reports is reached only that way and leaves the loop at the prompt
\* with no pattern pending, so the next input is read there; the loop ends
\* only at the prompt; and between two prompts the loop body always holds the
\* pattern it is working on, the error report being that of a pattern that
\* does not compile.
C12_ReportsReturnToPrompt ==
    /\ last_action = "CompilePattern" => pc \in {"Scanning", "ReportingError"}
    /\ last_action = "ScanStep" => pc = "Scanning"
    /\ last_action = "ScanEnd" => pc = "Reporting"
    /\ pc = "Reporting" => last_action = "ScanEnd"
    /\ pc = "ReportingError" => last_action = "CompilePattern"
    /\ pc = "ReportingGroups" => last_action \in {"ReadLine", "UsePending"}
    /\ last_action \in {"ReportMatches", "ReportError", "ReportGroups"} =>
          pc = "AwaitingPattern" /\ pattern = None
    /\ pc = "Terminated" => last_action \in {"Interrupt", "EndOfInput"}
    /\ pc \in {"Evaluating", "Scanning"} =>
          Truthy(pattern) /\ pattern.val \in Patterns
    /\ pc = "Scanning" => pattern.val \in GoodPatterns
    /\ pc = "ReportingError" => ret.result = None /\ pattern.val \in BadPatterns
    /\ pc = "Reporting" => ret.result.some /\ pattern.val \in GoodPatterns

\* The error of a failing pattern has been reported and the loop is back at
\* the prompt with no pattern pending.
C12_Witness ==
    /\ last_action = "ReportError"
    /\ pc = "AwaitingPattern"
    /\ ~Truthy(pattern)

\* The positions of the rendered text r that hold the marker c.
MarkersOf(r, c) == {i \in 1..Len(r) : r[i] = c}

\* C13 (count consistency): while the Highlighter scans, its count is the
\* number of records collected so far; the count it returns is the number of
\* records it returns, the number of colour markers and the number of reset
\* markers in the rendered text, and each colour marker is closed by a reset
\* marker before the next colour marker.
C13_CountConsistent ==
    /\ pc = "Scanning" => frame.match_count = Len(frame.all_matches)
    /\ pc = "Reporting" =>
          LET rendered == ret.result.val
              starts == MarkersOf(rendered, color_code)
              ends == MarkersOf(rendered, RESET)
          IN  /\ ret.match_count = IntVal(Len(ret.match_objects.val))
              /\ ret.match_count = IntVal(Cardinality(starts))
              /\ ret.match_count = IntVal(Cardinality(ends))
              /\ \A i \in starts :
                    \E j \in ends :
                        /\ i < j
                        /\ \A k \in (i + 1)..(j - 1) : k \notin starts \cup ends

\* The Highlighter has returned three matches, an empty one among them.
C13_Witness ==
    /\ pc = "Reporting"
    /\ ret.match_count = IntVal(3)
    /\ \E i \in 1..Len(ret.match_objects.val) :
          MatchSpan(ret.match_objects.val[i])[1]
              = MatchSpan(ret.match_objects.val[i])[2]

\* C14 (idempotence of inspection): when ':groups' is given again with no
\* successful pattern in between, it prints what it printed the time before.
C14_InspectionIdempotent ==
    /\ history.reinspected.some => history.reinspected = history.inspected
    /\ last_action = "ReportGroups" /\ history.reinspected.some =>
          stdout = history.reinspected.val

\* ':groups' has been given a second time on retained matches with groups.
C14_Witness ==
    /\ last_action = "ReportGroups"
    /\ history.reinspected.some
    /\ last_valid_pattern = Some(PatNamed)
    /\ Len(last_match_objects) >= 1

\* C15 (zero matches is a success): when a compiling pattern matches nowhere,
\* the Highlighter returns the text unchanged with count 0 and no records,
\* the report commits the pattern with no records, and a following ':groups'
\* prints the "no matches found" line and nothing else.
C15_ZeroMatchesSucceeds ==
    /\ pc = "Reporting" /\ ScanOf(pattern.val) = <<>> =>
          /\ ret.result = Some(text)
          /\ ret.match_count = IntVal(0)
          /\ ret.match_objects = Some(<<>>)
    /\ last_action = "ReportMatches" /\ ScanOf(history.submitted.val) = <<>> =>
          /\ last_valid_pattern = history.submitted
          /\ last_match_objects = <<>>
          /\ stdout[2] = <<"Matches found: ", YELLOW, "0", RESET>>
          /\ stdout[5] = text
    /\ last_action = "ReportGroups" /\ history.succeeded.some
            /\ ScanOf(history.succeeded.val) = <<>> =>
          /\ stdout = <<NoMatchesLine>>
          /\ stdout # <<NoPreviousLine>>

\* ':groups' has reported on a committed pattern that matched nowhere.
C15_Witness ==
    /\ last_action = "ReportGroups"
    /\ last_valid_pattern = Some(PatPlus)
    /\ last_match_objects = <<>>
    /\ text # <<>>

\* Where the report prints the first line of the i-th match.
MatchLineAt(ngroups, i) == 2 + (i - 1) * (ngroups + 4) + 1

\* The printed lines that are group lines.
GroupLinesPrinted ==
    {k \in 1..Len(stdout) : stdout[k] # <<>> /\ stdout[k][1] = "    Group "}

\* C16 (report ordering): the report on retained matches has one section per
\* record, in record order, which is the order of the scan; the section of
\* the i-th record gives its number i, its span and its matched text, then
\* the groups 1..N on the following lines in ascending order, and no other
\* line of the report is a group line.
C16_ReportInRecordOrder ==
    last_action = "ReportGroups" /\ last_match_objects # <<>> =>
        LET ms == last_match_objects
            N == Compile(last_valid_pattern.val).groups
            scan == ScanOf(last_valid_pattern.val)
        IN  /\ Len(ms) = Len(scan)
            /\ \A i \in 1..Len(ms) :
                  /\ MatchSpan(ms[i]) = <<scan[i].start, scan[i].end>>
                  /\ Len(ms[i].groups) = N
            /\ \A i \in 1..(Len(ms) - 1) : ms[i].start <= ms[i + 1].start
            /\ Len(stdout) = 2 + Len(ms) * (N + 4) + 1
            /\ \A i \in 1..Len(ms) :
                  /\ stdout[MatchLineAt(N, i)] =
                        <<YELLOW, "Match ", ToString(i), " at position [",
                          ToString(ms[i].start), "-", ToString(ms[i].end),
                          "]:", RESET>>
                  /\ stdout[MatchLineAt(N, i) + 1] =
                        <<"  Full match: ", GREEN>>
                            \o Slice(text, ms[i].start, ms[i].end)
                            \o <<RESET>>
                  /\ \A idx \in 1..N :
                        /\ stdout[GroupLineAt(N, i, idx)][1] = "    Group "
                        /\ stdout[GroupLineAt(N, i, idx)][2] = ToString(idx)
            /\ GroupLinesPrinted =
                  {GroupLineAt(N, i, idx) : i \in 1..Len(ms), idx \in 1..N}

\* The report has listed two matches of a pattern with two groups.
C16_Witness ==
    /\ last_action = "ReportGroups"
    /\ last_valid_pattern = Some(PatNamed)
    /\ Len(last_match_objects) = 2

\* The names the compiled pattern declares for group idx.
DeclaredNames(compiled, idx) ==
    {compiled.groupindex[k][1] :
        k \in {j \in 1..Len(compiled.groupindex) :
                  compiled.groupindex[j][2] = idx}}

\* C17 (group name resolution): in the report on retained matches, the line
\* of group idx carries the names the pattern declares for idx, in
\* parentheses, or nothing when it declares none, and then the text the
\* group captured, "None" standing for a group that took no part.
C17_NamesAndValuesShown ==
    last_action = "ReportGroups" /\ last_match_objects # <<>> =>
        LET compiled == Compile(last_valid_pattern.val)
            N == compiled.groups
        IN  \A i \in 1..Len(last_match_objects) :
                \A idx \in 1..N :
                    LET m == last_match_objects[i]
                        line == stdout[GroupLineAt(N, i, idx)]
                        names == DeclaredNames(compiled, idx)
                        prefix == IF names = {} THEN <<>>
                                  ELSE <<" (", CHOOSE x \in names : TRUE, ")">>
                        captured == IF MatchGroup(m, idx).some
                                    THEN MatchGroup(m, idx).val
                                    ELSE <<"None">>
                    IN  /\ Cardinality(names) <= 1
                        /\ line = <<"    Group ", ToString(idx)>> \o prefix
                                      \o <<": ", GREEN>> \o captured
                                      \o <<RESET>>

\* The line that states a match has no groups, and where it is printed.
NoGroupsLine == <<"  ", BLUE, "No captured groups in pattern", RESET>>
NoGroupsLinesPrinted == {k \in 1..Len(stdout) : stdout[k] = NoGroupsLine}

\* C18 (no groups is stated): in the report on retained matches of a pattern
\* without capturing groups, the third line of every match states that there
\* are no groups; for a pattern with groups that line is the heading of the
\* group lines and the statement is printed nowhere, also for a match in
\* which no group took part.
C18_NoGroupsStated ==
    last_action = "ReportGroups" /\ last_match_objects # <<>> =>
        LET N == Compile(last_valid_pattern.val).groups
            sections == 1..Len(last_match_objects)
        IN  IF N = 0
            THEN NoGroupsLinesPrinted = {MatchLineAt(0, i) + 2 : i \in sections}
            ELSE /\ NoGroupsLinesPrinted = {}
                 /\ \A i \in sections :
                       stdout[MatchLineAt(N, i) + 2] = <<"  Captured groups:">>

\* The report has listed two matches of a pattern without groups.
C18_Witness ==
    /\ last_action = "ReportGroups"
    /\ last_valid_pattern = Some(PatPlus)
    /\ Len(last_match_objects) = 2

\* The report has listed a match of a pattern with a group that took no part.
C18_AbsentGroupReported ==
    /\ last_action = "ReportGroups"
    /\ last_valid_pattern = Some(PatAltGroup)
    /\ \E i \in 1..Len(last_match_objects) :
          last_match_objects[i].groups = <<NoSpan>>

\* The positions of the loop body in which the Highlighter runs or ':groups'
\* or the error report is served.
ReadOnlyStates == {"Evaluating", "Scanning", "ReportingError", "ReportingGroups"}

\* C19 (frame of the read-only operations): the steps of the Highlighter, of
\* ':groups' and of the error report leave the text, the retained pattern and
\* the retained matches as they are; the retained pattern and matches change
\* only in the report step of a successful evaluation; the text never
\* changes after startup.
C19_ReadOnlyFrame ==
    /\ [][(pc \in ReadOnlyStates) => UNCHANGED session]_vars
    /\ [][<<last_valid_pattern, last_match_objects>>'
              # <<last_valid_pattern, last_match_objects>> =>
            pc = "Reporting" /\ last_action' = "ReportMatches"]_vars
    /\ [][(pc # "Start") => text' = text]_vars

\* ':groups' has reported on retained matches after a later pattern failed
\* to compile.
C19_Witness ==
    /\ last_action = "ReportGroups"
    /\ last_match_objects # <<>>
    /\ history.submitted.some
    /\ ~Compile(history.submitted.val).ok

\* The steps that start the loop, and the steps that end a loop iteration.
StartSteps == {"StartText", "StartFile", "StartInteractive"}
ReportSteps == {"ReportMatches", "ReportError", "ReportGroups"}

\* C20 (the pattern of the command line is used once): a pattern is pending
\* at the top of the loop only right after startup; it is then taken as the
\* first submission, with no prompt and before any line is read; the pending
\* pattern is taken only as the step after startup, so once at most; every
\* report step clears the pending pattern; and every other submission is a
\* line read at the prompt.
C20_PendingPatternUsedOnce ==
    /\ [](pc = "AwaitingPattern" /\ Truthy(pattern) => last_action \in StartSteps)
    /\ [](last_action = "UsePending" =>
            /\ stdout = <<>>
            /\ history.typed = None
            /\ pattern.val = GroupsCommand \/ history.submitted = pattern)
    /\ [](last_action \in ReportSteps => pattern = None)
    /\ [](pc \in {"Evaluating", "ReportingGroups"} =>
            last_action \in {"UsePending", "ReadLine"})
    /\ [](last_action = "ReadLine" => stdout = <<PromptLine>>)
    /\ [][last_action' = "UsePending" => last_action \in StartSteps]_vars
    /\ [][(pc = "AwaitingPattern" /\ Truthy(pattern)) =>
            last_action' = "UsePending"]_vars
    /\ [][(pc = "AwaitingPattern" /\ ~Truthy(pattern)) =>
            last_action' \in {"ReadLine", "Interrupt", "EndOfInput"}]_vars

\* The pattern of the command line has been evaluated and reported, and the
\* loop is back at the prompt with nothing typed yet and nothing pending.
C20_Witness ==
    /\ pc = "AwaitingPattern"
    /\ last_action = "ReportMatches"
    /\ history.typed = None
    /\ history.succeeded.some
    /\ pattern = None

====
